---- MODULE Spec2Model ----
(***************************************************************************)
(* InstagramScraper (python-code/ig.py): one run of run(), i.e. browser    *)
(* launch, login, entry-point discovery, the pagination loop that writes   *)
(* the CSV file, the top-level exception handler and browser teardown.     *)
(* The browser page, the OCR engine and the network are the environment:   *)
(* what a DOM query returns, whether a wait times out and whether OCR      *)
(* raises are chosen by the environment at each step.                      *)
(***************************************************************************)
EXTENDS Integers, Sequences, FiniteSets, TLC

(* ------------------------------ bounds -------------------------------- *)
\* the longest profile the environment offers: the "Next" control is absent
\* on post MaxPosts at the latest (above max_posts, so the cap is crossed)
MaxPosts == 22
\* how many caught failures one run may meet inside extract_post_data:
\* extractions that return None plus image/OCR sub-steps that raise
MaxFaults == 1

(* ------------------------- program constants -------------------------- *)
max_posts == 20

Header == <<"Post URL", "Post Content", "OCR Text", "Comment Username", "Comment Text">>

OcrFailed == "OCR processing failed"

NoContent == "No content found"

UnknownUser == "Unknown"

(* ------------------------- the page (DOM) ----------------------------- *)
\* An optional DOM value is a sequence of length 0 (element missing, JS
\* null/undefined) or 1 (its innerText / href).
Digits == <<"0", "1", "2", "3", "4", "5", "6", "7", "8", "9">>

RECURSIVE Str(_)
Str(n) == IF n < 10 THEN Digits[n + 1] ELSE Str(n \div 10) \o Digits[(n % 10) + 1]

\* The overlay markup of a post: is the /p/ anchor there, the h1 caption,
\* the image (absent, or the text fragments OCR recognises on it), and the
\* comment elements <<h3 a innerText, div._a9zs span innerText>>.
Templates ==
  << [link |-> TRUE, h1 |-> <<"Lowongan kerja">>, img |-> <<"yes">>,
      frags |-> <<"LOKER", "GAJI">>,
      elems |-> << [user |-> <<"ani">>, text |-> <<"mau">>],
                   [user |-> <<>>, text |-> <<"No text">>],
                   [user |-> <<"budi">>, text |-> <<"">>],
                   [user |-> <<"">>, text |-> <<"info">>] >>],
     [link |-> FALSE, h1 |-> <<>>, img |-> <<>>, frags |-> <<>>,
      elems |-> <<>>],
     [link |-> TRUE, h1 |-> <<"Promo">>, img |-> <<"yes">>,
      frags |-> <<"WA">>,
      elems |-> << [user |-> <<"dedi">>, text |-> <<"berapa">>] >>],
     [link |-> TRUE, h1 |-> <<"">>, img |-> <<"yes">>, frags |-> <<>>,
      elems |-> << [user |-> <<"cici">>, text |-> <<>>],
                   [user |-> <<>>, text |-> <<"No text">>] >>] >>

NT == Len(Templates)

\* the overlay of the i-th post of the profile whose markup cycle starts at
\* template 1 + offset
Dom(offset, i) == Templates[((i - 1 + offset) % NT) + 1]

VARIABLES
  pc,          \* position of run() in its control flow
  offset,      \* which profile the run scrapes (fixed by Init)
  cur,         \* the post the overlay shows (0: no overlay open)
  browser,     \* "none" | "open" | "closed"
  closes,      \* number of browser.close() calls
  exc,         \* "none" | "pending" (raised, unwinding) | "handled"
  csvFile,     \* the lines of CSV_FILE on disk, <<>> when it does not exist
  fileOpen,    \* the with-block holds the file open
  post_count,  \* local post_count of extract_and_download_posts
  post_data,   \* last result of extract_post_data: <<>> (None) or <<record>>
  loggedTotal, \* <<n>> once "Finished processing n posts" is logged
  errorLogged, \* "An error occurred" was logged by run()
  discovered,  \* result of get_first_post: "none" | "yes" | "no"
  hist         \* history of the run, used only to state properties

vars == <<pc, offset, cur, browser, closes, exc, csvFile, fileOpen, post_count,
          post_data, loggedTotal, errorLogged, discovered, hist>>

\* A file left by an earlier run of the same profile
StaleFile == <<Header, <<"/p/old", "old", "", "x", "y">> >>

InitHist ==
  [ initFile |-> <<>>,   \* the file before the run
    invoked |-> 0,       \* calls of extract_post_data
    nullPosts |-> {},    \* posts whose extraction returned None
    ocrErr |-> {},       \* posts whose image/OCR sub-step raised
    rowPost |-> <<>>,    \* the post each data row of this run was written for
    loopTimeout |-> 0,   \* post at which a wait of the loop timed out
    finished |-> {},     \* posts whose if/else of the loop body completed
    exit |-> "none",     \* how the loop was left: "cap" | "exhausted" | "raised"
    records |-> 0 ]      \* calls of extract_post_data that returned a record

Init ==
  /\ pc = "start"
  /\ offset \in 0 .. NT - 1
  /\ cur = 0
  /\ browser = "none"
  /\ closes = 0
  /\ exc = "none"
  /\ csvFile \in {<<>>, StaleFile}
  /\ fileOpen = FALSE
  /\ post_count = 0
  /\ post_data = <<>>
  /\ loggedTotal = <<>>
  /\ errorLogged = FALSE
  /\ discovered = "none"
  /\ hist = [InitHist EXCEPT !.initFile = csvFile]

(* --------------------- extract_post_data, pure part ------------------- *)
\* JS `el?.innerText || dflt`: a missing element and an empty text both
\* give the default
OrDefault(opt, dflt) == IF opt = <<>> \/ opt[1] = "" THEN dflt ELSE opt[1]

\* one comment element reduced to {username, text}
Comment(el) ==
  [username |-> OrDefault(el.user, UnknownUser), text |-> OrDefault(el.text, "")]

\* the filter without its placeholder test
KeepCommentNonEmpty(c) == c.text # ""

KeepComment(c) == c.text # "" /\ c.text # "No text"

RECURSIVE FilterComments(_)
FilterComments(cs) ==
  IF cs = <<>> THEN <<>>
  ELSE IF KeepComment(Head(cs)) THEN <<Head(cs)>> \o FilterComments(Tail(cs))
       ELSE FilterComments(Tail(cs))

\* comments.map(...).filter(...)
Comments(dom) == FilterComments([k \in 1 .. Len(dom.elems) |-> Comment(dom.elems[k])])

\* ' '.join(fragments)
RECURSIVE Join(_)
Join(fs) ==
  IF fs = <<>> THEN ""
  ELSE IF Len(fs) = 1 THEN fs[1]
       ELSE fs[1] \o " " \o Join(Tail(fs))

\* the sub-step with an except clause that leaves ocr_text as it was
OcrTextNoSentinel(dom, raised) ==
  IF dom.img # <<>> /\ ~raised THEN Join(dom.frags) ELSE ""

\* the image/OCR sub-step: `raised` says whether anything in its try block
\* raised (query, screenshot, decode or readtext)
OcrText(dom, raised) ==
  IF raised THEN OcrFailed
  ELSE IF dom.img # <<>> THEN Join(dom.frags)
       ELSE ""

\* linkElement ? linkElement.href : null
PostUrl(dom, i) == IF dom.link THEN <<"/p/" \o Str(i)>> ELSE <<>>

\* contentElement ? contentElement.innerText : 'No content found'
PostContent(dom) == IF dom.h1 # <<>> THEN dom.h1[1] ELSE NoContent

\* the dict extract_post_data returns for post i
PostRecord(dom, i, ocrRaised) ==
  [url |-> PostUrl(dom, i), content |-> PostContent(dom),
   comments |-> Comments(dom), ocr_text |-> OcrText(dom, ocrRaised)]

(* --------------------------- writing rows ----------------------------- *)
\* csv.writer writes None as the empty field
CsvField(opt) == IF opt = <<>> THEN "" ELSE opt[1]

CommentRow(d, c) == <<CsvField(d.url), d.content, d.ocr_text, c.username, c.text>>

EmptyRow(d) == <<CsvField(d.url), d.content, d.ocr_text, "", "">>

\* the loop body without its else branch: no row for a post without comments
RowsForCommentsOnly(d) == [k \in 1 .. Len(d.comments) |-> CommentRow(d, d.comments[k])]

\* the rows the loop body writes for a record
RowsFor(d) ==
  IF d.comments # <<>>
  THEN [k \in 1 .. Len(d.comments) |-> CommentRow(d, d.comments[k])]
  ELSE <<EmptyRow(d)>>

(* ------------------------------ run() --------------------------------- *)
\* async_playwright / chromium.launch / new_context / new_page
Launch ==
  /\ pc = "start"
  /\ browser' = "open"
  /\ pc' = "login"
  /\ UNCHANGED <<offset, cur, closes, exc, csvFile, fileOpen, post_count,
                 post_data, loggedTotal, errorLogged, discovered, hist>>

\* login(page) returns
LoginOk ==
  /\ pc = "login"
  /\ pc' = "discover"
  /\ UNCHANGED <<offset, cur, browser, closes, exc, csvFile, fileOpen,
                 post_count, post_data, loggedTotal, errorLogged, discovered, hist>>

\* run() without its try statement: the exception ends the run at once
ExceptEscapes == "done"

\* where an exception raised inside the try block of run() goes: its
\* except Exception clause
ExceptTarget == "handler"

\* a goto, wait, fill or click of login(page) raises
LoginRaises ==
  /\ pc = "login"
  /\ exc' = "pending"
  /\ pc' = ExceptTarget
  /\ UNCHANGED <<offset, cur, browser, closes, csvFile, fileOpen, post_count,
                 post_data, loggedTotal, errorLogged, discovered, hist>>

\* get_first_post returns True: the overlay of post 1 is open, and the
\* caller goes on to open the CSV file
FirstPostFound ==
  /\ pc = "discover"
  /\ discovered' = "yes"
  /\ cur' = 1
  /\ pc' = "open_csv"
  /\ UNCHANGED <<offset, browser, closes, exc, csvFile, fileOpen, post_count,
                 post_data, loggedTotal, errorLogged, hist>>

\* get_first_post returns False (selector not found or any exception, all
\* caught inside it); the caller logs and returns before opening the file.
\* clicked: the thumbnail was clicked and only the overlay wait timed out.
FirstPostMissing ==
  /\ pc = "discover"
  /\ \E clicked \in BOOLEAN : cur' = IF clicked THEN 1 ELSE 0
  /\ discovered' = "no"
  /\ pc' = "finally"
  /\ UNCHANGED <<offset, browser, closes, exc, csvFile, fileOpen, post_count,
                 post_data, loggedTotal, errorLogged, hist>>

\* open(CSV_FILE, 'w'), the header row, post_count = 0
OpenCsv ==
  /\ pc = "open_csv"
  /\ csvFile' = <<Header>>
  /\ fileOpen' = TRUE
  /\ post_count' = 0
  /\ pc' = "loop"
  /\ UNCHANGED <<offset, cur, browser, closes, exc, post_data, loggedTotal,
                 errorLogged, discovered, hist>>

\* the loop condition off by one
LoopTestInclusive(n) == n <= max_posts

\* while post_count < max_posts
LoopTest(n) == n < max_posts

\* the loop condition holds: enter the body
LoopEnter ==
  /\ pc = "loop"
  /\ LoopTest(post_count)
  /\ pc' = "waits"
  /\ UNCHANGED <<offset, cur, browser, closes, exc, csvFile, fileOpen,
                 post_count, post_data, loggedTotal, errorLogged, discovered, hist>>

\* the count logged after the with-block
FinishedCount(n) == n

\* the loop condition fails: leave the with-block, log the total
LoopCap ==
  /\ pc = "loop"
  /\ ~LoopTest(post_count)
  /\ fileOpen' = FALSE
  /\ loggedTotal' = <<FinishedCount(post_count)>>
  /\ hist' = [hist EXCEPT !.exit = "cap"]
  /\ pc' = "finally"
  /\ UNCHANGED <<offset, cur, browser, closes, exc, csvFile, post_count,
                 post_data, errorLogged, discovered>>

\* an exception leaves the with-block (the file is closed) and the
\* function, and reaches the except clause of run()
RaiseInLoop ==
  /\ fileOpen' = FALSE
  /\ exc' = "pending"
  /\ pc' = ExceptTarget

\* sleep(5), network-idle wait, overlay-visible wait: both satisfied
IterWaitsOk ==
  /\ pc = "waits"
  /\ pc' = "extract"
  /\ UNCHANGED <<offset, cur, browser, closes, exc, csvFile, fileOpen,
                 post_count, post_data, loggedTotal, errorLogged, discovered, hist>>

\* one of the two waits at the start of the iteration times out
IterWaitsTimeout ==
  /\ pc = "waits"
  /\ RaiseInLoop
  /\ hist' = [hist EXCEPT !.loopTimeout = cur, !.exit = "raised"]
  /\ UNCHANGED <<offset, cur, browser, closes, csvFile, post_count, post_data,
                 loggedTotal, errorLogged, discovered>>

\* caught failures met so far inside extract_post_data
Faults == Cardinality(hist.nullPosts) + Cardinality(hist.ocrErr)

\* extract_post_data returns None: its overlay wait timed out or one of
\* its page.evaluate calls raised (caught by its outer except)
ExtractNull ==
  /\ pc = "extract"
  /\ Faults < MaxFaults
  /\ post_data' = <<>>
  /\ hist' = [hist EXCEPT !.invoked = @ + 1, !.nullPosts = @ \cup {cur}]
  /\ pc' = "write"
  /\ UNCHANGED <<offset, cur, browser, closes, exc, csvFile, fileOpen,
                 post_count, loggedTotal, errorLogged, discovered>>

\* extract_post_data returns a record; the image/OCR sub-step may have
\* raised and been caught by the inner except
ExtractRecord ==
  /\ pc = "extract"
  /\ \E ocrRaised \in BOOLEAN :
       /\ ocrRaised => Faults < MaxFaults
       /\ post_data' = <<PostRecord(Dom(offset, cur), cur, ocrRaised)>>
       /\ hist' = [hist EXCEPT !.invoked = @ + 1, !.records = @ + 1,
                               !.ocrErr = IF ocrRaised THEN @ \cup {cur} ELSE @]
  /\ pc' = "write"
  /\ UNCHANGED <<offset, cur, browser, closes, exc, csvFile, fileOpen,
                 post_count, loggedTotal, errorLogged, discovered>>

\* a loop body that reopens the file in 'w' mode for every post
WritePostTruncating ==
  /\ pc = "write"
  /\ post_data # <<>>
  /\ LET rows == RowsFor(post_data[1])
     IN /\ csvFile' = <<Header>> \o rows
        /\ hist' = [hist EXCEPT !.rowPost = @ \o [k \in 1 .. Len(rows) |-> cur],
                                !.finished = @ \cup {cur}]
  /\ pc' = "advance"
  /\ UNCHANGED <<offset, cur, browser, closes, exc, fileOpen, post_count,
                 post_data, loggedTotal, errorLogged, discovered>>

\* if post_data: one writerow per comment, or the single empty-comment row
WritePost ==
  /\ pc = "write"
  /\ post_data # <<>>
  /\ LET rows == RowsFor(post_data[1])
     IN /\ csvFile' = csvFile \o rows
        /\ hist' = [hist EXCEPT !.rowPost = @ \o [k \in 1 .. Len(rows) |-> cur],
                                !.finished = @ \cup {cur}]
  /\ pc' = "advance"
  /\ UNCHANGED <<offset, cur, browser, closes, exc, fileOpen, post_count,
                 post_data, loggedTotal, errorLogged, discovered>>

\* a loop body that gives up on the first failed extraction
FailedPostBreaks ==
  /\ pc = "write"
  /\ post_data = <<>>
  /\ fileOpen' = FALSE
  /\ hist' = [hist EXCEPT !.finished = @ \cup {cur}, !.exit = "exhausted"]
  /\ pc' = "finally"
  /\ UNCHANGED <<offset, cur, browser, closes, exc, csvFile, post_count,
                 post_data, loggedTotal, errorLogged, discovered>>

\* else: "Failed to process post" is logged, nothing is written
FailedPost ==
  /\ pc = "write"
  /\ post_data = <<>>
  /\ hist' = [hist EXCEPT !.finished = @ \cup {cur}]
  /\ pc' = "advance"
  /\ UNCHANGED <<offset, cur, browser, closes, exc, csvFile, fileOpen,
                 post_count, post_data, loggedTotal, errorLogged, discovered>>

\* post_count += 1
NextCount(n) == n + 1

\* the "Next" control is found and clicked, the overlay of the following
\* post becomes visible
NextClicked ==
  /\ pc = "advance"
  /\ cur < MaxPosts
  /\ cur' = cur + 1
  /\ post_count' = NextCount(post_count)
  /\ pc' = "loop"
  /\ UNCHANGED <<offset, browser, closes, exc, csvFile, fileOpen, post_data,
                 loggedTotal, errorLogged, discovered, hist>>

\* the "Next" control is found and clicked, but the overlay wait after the
\* click times out
NextTimeout ==
  /\ pc = "advance"
  /\ cur < MaxPosts
  /\ cur' = cur + 1
  /\ RaiseInLoop
  /\ hist' = [hist EXCEPT !.loopTimeout = cur, !.exit = "raised"]
  /\ UNCHANGED <<offset, browser, closes, csvFile, post_count, post_data,
                 loggedTotal, errorLogged, discovered>>

\* no "Next" control: break, leave the with-block, log the total
NextAbsent ==
  /\ pc = "advance"
  /\ fileOpen' = FALSE
  /\ loggedTotal' = <<FinishedCount(post_count)>>
  /\ hist' = [hist EXCEPT !.exit = "exhausted"]
  /\ pc' = "finally"
  /\ UNCHANGED <<offset, cur, browser, closes, exc, csvFile, post_count,
                 post_data, errorLogged, discovered>>

\* except Exception as e: logging.error(...)
Handler ==
  /\ pc = "handler"
  /\ errorLogged' = TRUE
  /\ exc' = "handled"
  /\ pc' = "finally"
  /\ UNCHANGED <<offset, cur, browser, closes, csvFile, fileOpen, post_count,
                 post_data, loggedTotal, discovered, hist>>

\* finally: await browser.close(); run() ends
Finally ==
  /\ pc = "finally"
  /\ closes' = closes + 1
  /\ browser' = "closed"
  /\ pc' = "done"
  /\ UNCHANGED <<offset, cur, exc, csvFile, fileOpen, post_count, post_data,
                 loggedTotal, errorLogged, discovered, hist>>

Next ==
  \/ Launch
  \/ LoginOk
  \/ LoginRaises
  \/ FirstPostFound
  \/ FirstPostMissing
  \/ OpenCsv
  \/ LoopEnter
  \/ LoopCap
  \/ IterWaitsOk
  \/ IterWaitsTimeout
  \/ ExtractNull
  \/ ExtractRecord
  \/ WritePost
  \/ FailedPost
  \/ NextClicked
  \/ NextTimeout
  \/ NextAbsent
  \/ Handler
  \/ Finally

Spec == Init /\ [][Next]_vars

(* ====================== properties of the run ======================== *)
Min(a, b) == IF a < b THEN a ELSE b

Max(a, b) == IF a > b THEN a ELSE b

\* the data rows written by this run (the file without its header)
DataRows == IF fileOpen \/ hist.exit # "none" THEN Tail(csvFile) ELSE <<>>

\* how many rows of the file were written for post i
RowCount(i) == Cardinality({k \in 1 .. Len(hist.rowPost) : hist.rowPost[k] = i})

\* the position of data row k among the rows of its post
RowRank(k) == Cardinality({m \in 1 .. k : hist.rowPost[m] = hist.rowPost[k]})

\* the comment elements of post i that carry a text other than '' and
\* 'No text', read off the markup
IsValidElem(e) == e.text # <<>> /\ e.text[1] # "" /\ e.text[1] # "No text"

ValidElems(i) == SelectSeq(Dom(offset, i).elems, IsValidElem)

ValidCount(i) == Len(ValidElems(i))

RECURSIVE SumRows(_)
SumRows(n) == IF n = 0 THEN 0 ELSE Max(1, ValidCount(n)) + SumRows(n - 1)

\* the posts for which extract_post_data returned a record and the loop
\* body has gone through its if/else
Recorded == hist.finished \ hist.nullPosts

LoopPcs == {"loop", "waits", "extract", "write", "advance"}

\* C1: in a run where discovery succeeded, nothing raised and no extraction
\* returned None, the file holds, after the header, exactly
\* sum over i in 1..min(max_posts, P) of max(1, c_i) rows, P being the
\* posts reachable through "Next" (cur when the control was absent, more
\* than max_posts when the cap ended the loop).
C1_RowCount ==
  (pc = "done" /\ discovered = "yes" /\ exc = "none" /\ hist.nullPosts = {})
    => /\ csvFile[1] = Header
       /\ Len(csvFile) - 1 = SumRows(Min(max_posts, cur))

\* the scenario of the specification: 2, 0 and 1 comments, no "Next" on
\* post 3, four data rows
C1_Witness ==
  /\ pc = "done" /\ offset = 0 /\ cur = 3 /\ hist.exit = "exhausted"
  /\ hist.nullPosts = {} /\ exc = "none"
  /\ ValidCount(1) = 2 /\ ValidCount(2) = 0 /\ ValidCount(3) = 1
  /\ Len(csvFile) = 5

\* C2: after a run whose discovery failed the file is exactly the header.
C2_HeaderOnlyOnFailedDiscovery ==
  (pc = "done" /\ discovered = "no") => csvFile = <<Header>>

\* C3: extract_post_data is invoked on at most max_posts posts, and no row
\* is written for a post after the max_posts-th, even when "Next" is still
\* there after it.
C3_Cap ==
  /\ hist.invoked <= max_posts
  /\ pc \in {"extract", "write"} => cur <= max_posts
  /\ \A k \in 1 .. Len(hist.rowPost) : hist.rowPost[k] <= max_posts
  /\ hist.exit = "cap" => hist.invoked = max_posts

\* "Next" was present after post max_posts and the run ended by the cap
C3_Witness ==
  /\ pc = "done" /\ hist.exit = "cap" /\ cur = max_posts + 1
  /\ hist.invoked = max_posts

C5_TimeoutSkipsOnlyPost ==
  (pc = "done" /\ hist.loopTimeout > 0) => (exc = "none" /\ loggedTotal # <<>>)

\* C6: the rows of a post carry exactly its comments whose text is neither
\* '' nor 'No text', in the order of the markup; a row with an empty
\* comment text is the single empty-comment row of a post without any.
C6_Filtered ==
  /\ Len(hist.rowPost) = Len(DataRows)
  /\ \A k \in 1 .. Len(DataRows) :
       LET row == DataRows[k]
           keep == ValidElems(hist.rowPost[k])
           j == RowRank(k)
       IN /\ row[5] # "No text"
          /\ IF keep = <<>>
             THEN row[4] = "" /\ row[5] = ""
             ELSE /\ j <= Len(keep)
                  /\ row[5] = keep[j].text[1]
                  /\ row[4] = IF keep[j].user \in {<<>>, <<"">>}
                              THEN UnknownUser ELSE keep[j].user[1]
  /\ \A i \in Recorded : RowCount(i) = Max(1, ValidCount(i))
  /\ post_data # <<>> =>
       \A k \in 1 .. Len(post_data[1].comments) :
          post_data[1].comments[k].text \notin {"", "No text"}

\* rows written for a post whose markup holds a 'No text', an empty and two
\* valid comments, and for a post all of whose comments are dropped
C6_Witness ==
  /\ offset = 0 /\ cur = 5 /\ pc = "waits" /\ hist.nullPosts = {}
  /\ Len(Dom(offset, 1).elems) = 4 /\ RowCount(1) = 2
  /\ Len(Dom(offset, 4).elems) = 2 /\ RowCount(4) = 1

\* C7: in the rows of a post, the OCR text is '' when no image element was
\* found and exactly the sentinel when the image/OCR sub-step raised; in
\* the latter case url, caption and comments are extracted as usual and the
\* rows are written.
C7_OcrFallbacks ==
  /\ \A k \in 1 .. Len(hist.rowPost) :
       LET i == hist.rowPost[k]
           row == DataRows[k]
           dom == Dom(offset, i)
       IN /\ i \in hist.ocrErr => row[3] = "OCR processing failed"
          /\ (i \notin hist.ocrErr /\ dom.img = <<>>) => row[3] = ""
          /\ row[1] = (IF dom.link THEN "/p/" \o Str(i) ELSE "")
          /\ row[2] = (IF dom.h1 = <<>> THEN "No content found" ELSE dom.h1[1])
  /\ \A i \in Recorded : RowCount(i) = Max(1, ValidCount(i))
  /\ hist.ocrErr \cap hist.finished \subseteq Recorded

\* a post without image and a post whose OCR raised both have their rows
C7_Witness ==
  /\ pc = "done"
  /\ \E i \in Recorded : i \in hist.ocrErr /\ ValidCount(i) = 2
                         /\ RowCount(i) = 2
  /\ \E i \in Recorded : i \notin hist.ocrErr /\ Dom(offset, i).img = <<>>

\* C8: a post whose extraction returned None gets no row; the loop then
\* looks for "Next" and advances; the post counts in post_count like any
\* other; the posts before and after it have their rows.
C8_NullInv ==
  /\ \A i \in hist.nullPosts : RowCount(i) = 0
  /\ \A i \in Recorded : RowCount(i) = Max(1, ValidCount(i))
  /\ pc \in LoopPcs => post_count = cur - 1
  /\ pc \in LoopPcs =>
       hist.invoked = post_count + (IF pc \in {"write", "advance"} THEN 1 ELSE 0)

C8_NullStep ==
  (pc = "write" /\ post_data = <<>>)
    => /\ pc' = "advance"
       /\ csvFile' = csvFile
       /\ post_count' = post_count

C8_NullSkipped == []C8_NullInv /\ [][C8_NullStep]_vars

\* a post in the middle returned None; posts before and after have rows
C8_Witness ==
  /\ pc = "done"
  /\ \E i \in hist.nullPosts :
       /\ \E k \in 1 .. Len(hist.rowPost) : hist.rowPost[k] < i
       /\ \E k \in 1 .. Len(hist.rowPost) : hist.rowPost[k] > i

\* C9: once the file is opened by the run its content only grows (what is
\* written stays, whatever fails later), and the file is open only inside
\* the loop: it is closed on every path that leaves it.
IsPrefix(a, b) == Len(a) <= Len(b) /\ \A k \in 1 .. Len(a) : a[k] = b[k]

C9_GrowStep ==
  (discovered = "yes" /\ pc # "open_csv")
    => (IsPrefix(csvFile, csvFile') /\ IsPrefix(hist.rowPost, hist.rowPost'))

C9_NoRollback ==
  /\ [](fileOpen => pc \in LoopPcs)
  /\ [](pc \in LoopPcs => fileOpen)
  /\ [][C9_GrowStep]_vars

\* rows were written, then a wait of a later post timed out and the run was
\* ended by the handler; the rows are in the closed file
C9_Witness ==
  /\ pc = "done" /\ exc = "handled" /\ ~fileOpen
  /\ hist.loopTimeout = 3 /\ Len(csvFile) > 2
  /\ \E i \in hist.nullPosts : i = 2

\* C10: the count logged when the loop ends is the number of posts on
\* which extract_post_data was invoked.
C10_LoggedTotal ==
  loggedTotal # <<>> => loggedTotal[1] = hist.invoked

====
